---- MODULE Spec2Model ----
(***************************************************************************)
(* A model of the AT24MACx02 EEPROM driver (src/AT24MAC_EEPROM.py).        *)
(*                                                                         *)
(* The state is the content of the EEPROM array and of the identity block  *)
(* of the part, the attributes of the AT24MAC object, and the record of    *)
(* the calls made on the object: for each call its arguments, the bus      *)
(* traffic it caused, its result and the device content it found.          *)
(*                                                                         *)
(* Python values are modelled as follows.  A bytes/bytearray value is a    *)
(* sequence of numbers in 0..255.  int.to_bytes(1, "big") raises           *)
(* OverflowError outside 0..255 (CPython and CircuitPython both do).       *)
(* The 128-bit value of int.from_bytes(.., "big") is kept as its base-256  *)
(* digits without leading zeros, the canonical form of the integer.        *)
(* A bus transaction that fails raises OSError and leaves the device as it *)
(* was.                                                                    *)
(***************************************************************************)
EXTENDS Integers, Sequences, FiniteSets, TLC

VARIABLES
    mem,            \* content of the EEPROM array, address -> byte
    eui,            \* content of the identity block, address -> byte
    phase,          \* "absent" before __init__, then "ready" or "failed"
    eeprom_device,  \* self.eeprom_device: 7-bit bus address of the array
    eui_device,     \* self.eui_device: 7-bit bus address of the identity block
    mac,            \* self.mac
    serial_number,  \* self.serial_number
    history,        \* the calls made so far, oldest first
    tasks           \* the threads inside a write on the object, thread -> position

vars == <<mem, eui, phase, eeprom_device, eui_device, mac, serial_number, history, tasks>>

(***************************************************************************)
(* Program constants                                                       *)
(***************************************************************************)
EEPROM_LENGTH == 256
PAGE_SIZE == 16
EUI_LOCATION == 154
MAC_ADDR_LENGTH == 6
SERIAL_NUMBER_LOCATION == 128
SERIAL_NUMBER_LENGTH == 16
EEPROM_BASE == 80
EUI_BASE == 88
DEFAULT_ADDRESS_PINS == 4
ByteMax == 255
PinBits == 7

(***************************************************************************)
(* Bounds of the model                                                     *)
(***************************************************************************)
MaxCalls == 2       \* calls made on the object after construction
MaxFail == 4        \* a call's 1st..MaxFail-th bus transaction may fail
MaxWideLen == 40    \* longest payload of the exhaustive splitting check

Byte == 0..ByteMax

Min(a, b) == IF a < b THEN a ELSE b
Max(a, b) == IF a > b THEN a ELSE b

(***************************************************************************)
(* Python helpers                                                          *)
(***************************************************************************)
\* data[i:j] for 0 <= i: the elements with 0-based index in [i, min(j, len))
PySlice(data, i, j) == SubSeq(data, i + 1, Min(j, Len(data)))

\* a | b on 7-bit bus addresses
RECURSIVE BitOr(_, _, _)
BitOr(a, b, bits) ==
    IF bits = 0 THEN 0
    ELSE (IF (a % 2 = 1) \/ (b % 2 = 1) THEN 1 ELSE 0)
         + 2 * BitOr(a \div 2, b \div 2, bits - 1)

\* int.from_bytes(b, "big"): the integer, as base-256 digits without leading zeros
RECURSIVE FromBytesBig(_)
FromBytesBig(b) ==
    IF Len(b) = 0 THEN <<>>
    ELSE IF b[1] = 0 THEN FromBytesBig(Tail(b))
    ELSE b

(***************************************************************************)
(* Values, bus events and the execution context of a call                  *)
(***************************************************************************)
NoneVal == [kind |-> "none", ival |-> 0, bytes |-> <<>>]
IntVal(v) == [kind |-> "int", ival |-> v, bytes |-> <<>>]
BytesVal(b) == [kind |-> "bytes", ival |-> 0, bytes |-> b]
ListVal(b) == [kind |-> "list", ival |-> 0, bytes |-> b]

\* one event on the bus, or the sleep of the calling thread
ReadEvent(dev, addr, n, ok) ==
    [op |-> "write_then_readinto", dev |-> dev, addr |-> addr, n |-> n, data |-> <<>>, ok |-> ok]
WriteEvent(dev, addr, data, ok) ==
    [op |-> "write", dev |-> dev, addr |-> addr, n |-> Len(data), data |-> data, ok |-> ok]
SleepEvent == [op |-> "sleep", dev |-> 0, addr |-> 0, n |-> 0, data |-> <<>>, ok |-> TRUE]

IsTxn(e) == e.op # "sleep"
RECURSIVE CountTxns(_)
CountTxns(log) ==
    IF Len(log) = 0 THEN 0
    ELSE (IF IsTxn(log[Len(log)]) THEN 1 ELSE 0) + CountTxns(SubSeq(log, 1, Len(log) - 1))

\* the context a call runs in: device content, bus log, pending exception,
\* return value, and which of its transactions the transport fails (0: none)
Ctx(m, fail, negErr) ==
    [mem |-> m, log |-> <<>>, err |-> "", ret |-> NoneVal, fail |-> fail, negErr |-> negErr]
Raise(c, e) == [c EXCEPT !.err = e, !.ret = NoneVal]
Return(c, v) == [c EXCEPT !.ret = v]
Fails(c) == c.fail # 0 /\ CountTxns(c.log) + 1 = c.fail

(***************************************************************************)
(* The part on the bus                                                     *)
(***************************************************************************)
\* a sequential read of n bytes of the EEPROM array from addr; the address
\* counter of the part rolls over at the end of the array
ArrayBytes(m, addr, n) == [i \in 1..n |-> m[(addr + i - 1) % EEPROM_LENGTH]]

\* a page write: the low four address bits count up and roll over inside the
\* page, the page bits stay
PageTarget(addr, i) == (addr - (addr % PAGE_SIZE)) + (((addr % PAGE_SIZE) + i) % PAGE_SIZE)
RECURSIVE Program(_, _, _, _)
Program(m, addr, data, i) ==
    IF i >= Len(data) THEN m
    ELSE Program([m EXCEPT ![PageTarget(addr, i)] = data[i + 1]], addr, data, i + 1)

\* device.write_then_readinto(address, buffer) on the EEPROM array
ArrayRead(c, dev, addr, n) ==
    IF Fails(c)
    THEN [c EXCEPT !.log = Append(@, ReadEvent(dev, addr, n, FALSE)), !.err = "OSError",
                   !.ret = NoneVal]
    ELSE [c EXCEPT !.log = Append(@, ReadEvent(dev, addr, n, TRUE)),
                   !.ret = BytesVal(ArrayBytes(c.mem, addr, n))]

\* device.write(address + data) on the EEPROM array
ArrayWrite(c, dev, addr, data) ==
    IF Fails(c)
    THEN [c EXCEPT !.log = Append(@, WriteEvent(dev, addr, data, FALSE)), !.err = "OSError",
                   !.ret = NoneVal]
    ELSE [c EXCEPT !.log = Append(@, WriteEvent(dev, addr, data, TRUE)),
                   !.mem = Program(c.mem, addr, data, 0), !.ret = NoneVal]

\* device.write_then_readinto(location, buffer) on the identity block
IdentityRead(c, dev, block, addr, n) ==
    IF Fails(c)
    THEN [c EXCEPT !.log = Append(@, ReadEvent(dev, addr, n, FALSE)), !.err = "OSError",
                   !.ret = NoneVal]
    ELSE [c EXCEPT !.log = Append(@, ReadEvent(dev, addr, n, TRUE)),
                   !.ret = BytesVal([i \in 1..n |-> block[addr + i - 1]])]

\* time.sleep(_WRITE_TIME)
Sleep(c) == [c EXCEPT !.log = Append(@, SleepEvent)]

(***************************************************************************)
(* AT24MAC._read, _does_data_match, _write_page                            *)
(***************************************************************************)
_read(c, dev, data_address, length) ==
    IF (length + data_address) > EEPROM_LENGTH THEN Raise(c, "ValueError")
    ELSE IF length < 0 THEN Raise(c, c.negErr)                 \* bytearray(length)
    ELSE IF data_address \notin Byte THEN Raise(c, "OverflowError")   \* to_bytes(1, "big")
    ELSE LET r == ArrayRead(c, dev, data_address, length) IN
         IF r.err # "" THEN r
         ELSE IF length > 1 THEN r
         ELSE IF length = 0 THEN Raise(r, "IndexError")        \* data_bytes[0]
         ELSE Return(r, IntVal(r.ret.bytes[1]))

\* _does_data_match without line 196-197: the scalar a one-byte read returns
\* is compared with the payload as it is, and never equals it
_does_data_match_unwrapped(c, dev, data_address, data) ==
    LET r == _read(c, dev, data_address, Len(data))
    IN  [ctx |-> r,
         match |-> IF r.err # "" \/ Len(data) = 1 THEN FALSE ELSE r.ret.bytes = data]

\* the context after the comparison read, and whether the data matched
_does_data_match(c, dev, data_address, data) ==
    LET r == _read(c, dev, data_address, Len(data))
        current_values == IF Len(data) = 1 THEN <<r.ret.ival>> ELSE r.ret.bytes
    IN  [ctx |-> r, match |-> IF r.err # "" THEN FALSE ELSE current_values = data]

\* _write_page that writes whatever the comparison read found
_write_page_always(c, dev, data_address, data) ==
    LET d == _does_data_match(c, dev, data_address, data) IN
    IF d.ctx.err # "" THEN d.ctx
    ELSE LET w == ArrayWrite(d.ctx, dev, data_address, data) IN
         IF w.err # "" THEN w ELSE Sleep(w)

\* _write_page without the delay of line 190
_write_page_no_sleep(c, dev, data_address, data) ==
    LET d == _does_data_match(c, dev, data_address, data) IN
    IF d.ctx.err # "" THEN d.ctx
    ELSE IF d.match THEN Return(d.ctx, NoneVal)
    ELSE ArrayWrite(d.ctx, dev, data_address, data)

\* _write_page with the test of line 184 inverted
_write_page_inverted(c, dev, data_address, data) ==
    LET d == _does_data_match(c, dev, data_address, data) IN
    IF d.ctx.err # "" THEN d.ctx
    ELSE IF ~d.match THEN Return(d.ctx, NoneVal)
    ELSE LET w == ArrayWrite(d.ctx, dev, data_address, data) IN
         IF w.err # "" THEN w ELSE Sleep(w)

_write_page(c, dev, data_address, data) ==
    LET d == _does_data_match(c, dev, data_address, data) IN
    IF d.ctx.err # "" THEN d.ctx
    ELSE IF d.match THEN Return(d.ctx, NoneVal)
    ELSE LET w == ArrayWrite(d.ctx, dev, data_address, data) IN
         IF w.err # "" THEN w ELSE Sleep(w)

(***************************************************************************)
(* AT24MAC._write                                                          *)
(***************************************************************************)
\* lines 142-147: an int in 0..255 becomes one byte, any other int stays an
\* int (and has no len()); an iterable becomes a bytearray
Coerce(data) ==
    IF data.kind = "bytes" THEN [err |-> "", bytes |-> data.bytes]
    ELSE IF data.kind = "int"
    THEN IF 0 <= data.ival /\ data.ival <= ByteMax
         THEN [err |-> "", bytes |-> <<data.ival>>]
         ELSE [err |-> "TypeError", bytes |-> <<>>]
    ELSE IF \A i \in 1..Len(data.bytes) : data.bytes[i] \in Byte
         THEN [err |-> "", bytes |-> data.bytes]
         ELSE [err |-> "ValueError", bytes |-> <<>>]

\* Offset without lines 158-159: a page-aligned address gives 16, not 0
Offset_no_reset(data_address, L) ==
    IF L > 1 THEN PAGE_SIZE - (data_address % PAGE_SIZE) ELSE 0

\* Offset as the distance from the start of the page, not to its end
Offset_from_page_start(data_address, L) ==
    IF L > 1 THEN data_address % PAGE_SIZE ELSE 0

\* lines 154-164
Offset(data_address, L) ==
    IF L > 1
    THEN LET offset == PAGE_SIZE - (data_address % PAGE_SIZE)
         IN  IF offset = 16 THEN 0 ELSE offset
    ELSE 0

\* TotalPages rounded up instead of down
TotalPages_ceil(L) == IF L > 1 THEN (L + PAGE_SIZE - 1) \div PAGE_SIZE ELSE 0

TotalPages(L) == IF L > 1 THEN L \div PAGE_SIZE ELSE 0

\* RemainingBytes without line 160 (remaining_bytes -= offset)
RemainingBytes_no_offset(data_address, L) ==
    IF L > 1 THEN L % PAGE_SIZE ELSE 1

RemainingBytes(data_address, L) ==
    IF L > 1 THEN (L % PAGE_SIZE) - Offset(data_address, L) ELSE 1

\* len(range(start, stop, step)) for step > 0
RangeLen(start, stop, step) ==
    IF stop > start THEN ((stop - start) + (step - 1)) \div step ELSE 0

\* lines 166-176: the page-writes _write asks for, in order
WritePlan(data_address, data) ==
    LET L == Len(data)
        offset == Offset(data_address, L)
        total_pages == TotalPages(L)
        remaining_bytes == RemainingBytes(data_address, L)
        first == IF offset > 0
                 THEN <<[addr |-> data_address, data |-> PySlice(data, 0, offset)]>>
                 ELSE <<>>
        after_first == IF offset > 0 THEN data_address + offset ELSE data_address
        n == IF total_pages > 0 THEN RangeLen(offset, total_pages * PAGE_SIZE, PAGE_SIZE) ELSE 0
        pages == [k \in 1..n |->
                    [addr |-> after_first + (k - 1) * PAGE_SIZE,
                     data |-> PySlice(data, offset + (k - 1) * PAGE_SIZE,
                                            offset + (k - 1) * PAGE_SIZE + PAGE_SIZE)]]
        after_pages == after_first + n * PAGE_SIZE
        tail == IF remaining_bytes > 0
                THEN <<[addr |-> after_pages,
                        data |-> PySlice(data, offset + total_pages * PAGE_SIZE, L)]>>
                ELSE <<>>
    IN  first \o pages \o tail

\* the page-writes run in order, and the loop goes on after one has raised
RECURSIVE WritePages_keep_going(_, _, _, _)
WritePages_keep_going(c, dev, plan, k) ==
    IF k > Len(plan) THEN c
    ELSE LET r == _write_page([c EXCEPT !.err = ""], dev, plan[k].addr, plan[k].data)
         IN  WritePages_keep_going([r EXCEPT !.err = IF c.err # "" THEN c.err ELSE r.err],
                                   dev, plan, k + 1)

\* the page-writes run in order until one raises
RECURSIVE WritePages(_, _, _, _)
WritePages(c, dev, plan, k) ==
    IF k > Len(plan) \/ c.err # "" THEN c
    ELSE WritePages(_write_page(c, dev, plan[k].addr, plan[k].data), dev, plan, k + 1)

\* _write without the test of lines 149-152
_write_unchecked(c, dev, data_address, data) ==
    LET co == Coerce(data) IN
    IF co.err # "" THEN Raise(c, co.err)
    ELSE Return(WritePages(c, dev, WritePlan(data_address, co.bytes), 1), NoneVal)

\* _write with >= for > in the test of line 149
_write_ge(c, dev, data_address, data) ==
    LET co == Coerce(data) IN
    IF co.err # "" THEN Raise(c, co.err)
    ELSE IF (Len(co.bytes) + data_address) >= EEPROM_LENGTH THEN Raise(c, "ValueError")
    ELSE Return(WritePages(c, dev, WritePlan(data_address, co.bytes), 1), NoneVal)

_write(c, dev, data_address, data) ==
    LET co == Coerce(data) IN
    IF co.err # "" THEN Raise(c, co.err)
    ELSE IF (Len(co.bytes) + data_address) > EEPROM_LENGTH THEN Raise(c, "ValueError")
    ELSE Return(WritePages(c, dev, WritePlan(data_address, co.bytes), 1), NoneVal)

(***************************************************************************)
(* AT24MAC.__getitem__, __setitem__, __len__                               *)
(***************************************************************************)
IntKey(a) ==
    [kind |-> "int", addr |-> a, hasStart |-> FALSE, start |-> 0, hasStop |-> FALSE, stop |-> 0]
SliceKey(hasStart, start, hasStop, stop) ==
    [kind |-> "slice", addr |-> 0, hasStart |-> hasStart, start |-> start,
     hasStop |-> hasStop, stop |-> stop]
OtherKey ==
    [kind |-> "other", addr |-> 0, hasStart |-> FALSE, start |-> 0, hasStop |-> FALSE, stop |-> 0]

\* lines 74-85 and 95-106: the bounds of a slice, or the bound that is refused
SliceBounds(key) ==
    LET badStart == key.hasStart /\ ((key.start < 0) \/ (key.start >= EEPROM_LENGTH))
        badStop == key.hasStop /\ ((key.stop < 0) \/ (key.stop >= EEPROM_LENGTH))
    IN  [err |-> IF badStart \/ badStop THEN "ValueError" ELSE "",
         start |-> IF key.hasStart THEN key.start ELSE 0,
         stop |-> IF key.hasStop THEN key.stop ELSE EEPROM_LENGTH]

__getitem__(c, dev, key) ==
    IF key.kind = "int" THEN _read(c, dev, key.addr, 1)
    ELSE IF key.kind = "slice"
    THEN LET b == SliceBounds(key) IN
         IF b.err # "" THEN Raise(c, b.err)
         ELSE _read(c, dev, b.start, b.stop - b.start)
    ELSE Raise(c, "ValueError")

__setitem__(c, dev, key, data) ==
    IF key.kind = "int" THEN _write(c, dev, key.addr, data)
    ELSE IF key.kind = "slice"
    THEN LET b == SliceBounds(key) IN
         IF b.err # "" THEN Raise(c, b.err)
         ELSE _write(c, dev, b.start, data)
    ELSE Raise(c, "ValueError")

__len__(c) == Return(c, IntVal(EEPROM_LENGTH))

(***************************************************************************)
(* AT24MAC.read_mac_address, read_serial_number, __init__                  *)
(***************************************************************************)
\* read_mac_address with the location and length of the EUI-64 variant
\* (lines 33-34)
read_mac_address_eui64(c, dev, block) ==
    IdentityRead(c, dev, block, 152, 8)

read_mac_address(c, dev, block) ==
    IdentityRead(c, dev, block, EUI_LOCATION, MAC_ADDR_LENGTH)

read_serial_number(c, dev, block) ==
    LET r == IdentityRead(c, dev, block, SERIAL_NUMBER_LOCATION, SERIAL_NUMBER_LENGTH) IN
    IF r.err # "" THEN r ELSE Return(r, BytesVal(FromBytesBig(r.ret.bytes)))

\* I2CDevice(i2c, address, True): the address is probed, and ValueError is
\* raised when nothing answers
ProbeEvent(dev, ok) ==
    [op |-> "probe", dev |-> dev, addr |-> 0, n |-> 0, data |-> <<>>, ok |-> ok]
I2CDevice(c, dev) ==
    IF Fails(c)
    THEN [c EXCEPT !.log = Append(@, ProbeEvent(dev, FALSE)), !.err = "ValueError"]
    ELSE [c EXCEPT !.log = Append(@, ProbeEvent(dev, TRUE))]

\* __init__ with lines 46 and 47 swapped: the serial number is read first
__init___serial_first(c, block, address_pins) ==
    LET primary == BitOr(EEPROM_BASE, address_pins, PinBits)
        secondary == BitOr(EUI_BASE, address_pins, PinBits)
        p1 == I2CDevice(c, primary)
        p2 == IF p1.err # "" THEN p1 ELSE I2CDevice(p1, secondary)
        s == IF p2.err # "" THEN p2 ELSE read_serial_number(p2, secondary, block)
        m == IF s.err # "" THEN s ELSE read_mac_address(s, secondary, block)
    IN  [ctx |-> m,
         eeprom_device |-> IF p1.err = "" THEN primary ELSE 0,
         eui_device |-> IF p2.err = "" THEN secondary ELSE 0,
         mac |-> IF m.err = "" THEN m.ret.bytes ELSE <<>>,
         serial_number |-> IF s.err = "" THEN s.ret.bytes ELSE <<>>]

\* the context after __init__, with the attributes it has set so far
__init__(c, block, address_pins) ==
    LET primary == BitOr(EEPROM_BASE, address_pins, PinBits)
        secondary == BitOr(EUI_BASE, address_pins, PinBits)
        p1 == I2CDevice(c, primary)
        p2 == IF p1.err # "" THEN p1 ELSE I2CDevice(p1, secondary)
        m == IF p2.err # "" THEN p2 ELSE read_mac_address(p2, secondary, block)
        s == IF m.err # "" THEN m ELSE read_serial_number(m, secondary, block)
    IN  [ctx |-> s,
         eeprom_device |-> IF p1.err = "" THEN primary ELSE 0,
         eui_device |-> IF p2.err = "" THEN secondary ELSE 0,
         mac |-> IF m.err = "" THEN m.ret.bytes ELSE <<>>,
         serial_number |-> IF s.err = "" THEN s.ret.bytes ELSE <<>>]

(***************************************************************************)
(* Inputs                                                                  *)
(***************************************************************************)
\* a payload of L bytes: seed, seed + 1, ... modulo 256
Payload(seed, L) == [i \in 1..L |-> (seed + i - 1) % (ByteMax + 1)]

\* device content before the driver is used: every byte its own address, or
\* an erased array
InitMems == {[a \in 0..(EEPROM_LENGTH - 1) |-> a],
             [a \in 0..(EEPROM_LENGTH - 1) |-> ByteMax]}

\* the identity block: serial number at 0x80..0x8F (first byte zero), EUI-48
\* at 0x9A..0x9F
IdentityBlock == [a \in 128..159 |-> IF a = 128 THEN 0 ELSE (3 * a) % (ByteMax + 1)]

AddressPins == {DEFAULT_ADDRESS_PINS, 5}

ReadKeys ==
    {IntKey(a) : a \in {-1, 10, 256}}
    \cup {SliceKey(TRUE, b[1], TRUE, b[2]) :
            b \in {<<10, 30>>, <<5, 5>>, <<5, 6>>, <<236, 256>>, <<-1, 5>>, <<30, 10>>}}
    \cup {SliceKey(TRUE, 236, FALSE, 0), SliceKey(FALSE, 0, TRUE, 16), OtherKey}

WriteKeys ==
    {IntKey(a) : a \in {-1, 10, 250, 256}}
    \cup {SliceKey(TRUE, b[1], TRUE, b[2]) :
            b \in {<<10, 30>>, <<5, 5>>, <<5, 6>>, <<236, 256>>, <<-1, 5>>}}
    \cup {SliceKey(TRUE, 236, FALSE, 0), OtherKey}

Datas ==
    {IntVal(76), BytesVal(<<>>), BytesVal(Payload(250, 1)),
     BytesVal(Payload(10, 20)), BytesVal(Payload(250, 20))}

\* what bytearray(length) raises for length < 0 depends on the interpreter
NegErrs(key) ==
    IF key.kind = "slice" /\ SliceBounds(key).stop < SliceBounds(key).start
    THEN {"ValueError", "MemoryError"}
    ELSE {"ValueError"}

\* the calls of the fault scenarios
FaultReadKeys == {IntKey(10), SliceKey(TRUE, 10, TRUE, 50)}
FaultWriteKeys == {IntKey(10), IntKey(16)}
FaultDatas == {BytesVal(Payload(10, 20)), BytesVal(Payload(250, 20)), BytesVal(Payload(250, 40))}

(***************************************************************************)
(* The state machine                                                       *)
(***************************************************************************)
Call(op, key, data, before, c) ==
    [op |-> op, key |-> key, data |-> data, before |-> before,
     log |-> c.log, err |-> c.err, ret |-> c.ret]

\* the threads that may be inside eeprom[a] = data at the same time
Tasks == {"a", "b"}

\* a thread that has not called yet
IdleTask ==
    [pc |-> "idle", locked |-> FALSE, overlaps |-> FALSE, data_address |-> 0,
     data |-> <<>>, page |-> 0, err |-> "", rank |-> 0]

Init ==
    /\ mem \in InitMems
    /\ eui = IdentityBlock
    /\ phase = "absent"
    /\ eeprom_device = 0
    /\ eui_device = 0
    /\ mac = <<>>
    /\ serial_number = <<>>
    /\ history = <<>>
    /\ tasks = [t \in Tasks |-> IdleTask]

\* eeprom = AT24MAC(i2c, address_pins)
Construct(address_pins, fail) ==
    /\ phase = "absent"
    /\ LET r == __init__(Ctx(mem, fail, "ValueError"), eui, address_pins) IN
       /\ phase' = IF r.ctx.err = "" THEN "ready" ELSE "failed"
       /\ eeprom_device' = r.eeprom_device
       /\ eui_device' = r.eui_device
       /\ mac' = r.mac
       /\ serial_number' = r.serial_number
       /\ mem' = r.ctx.mem
       /\ history' = Append(history, Call("__init__", IntKey(address_pins), NoneVal, mem, r.ctx))
    /\ UNCHANGED <<eui, tasks>>

\* eeprom[key]
GetItem(key, fail, negErr) ==
    /\ phase = "ready"
    /\ LET c == __getitem__(Ctx(mem, fail, negErr), eeprom_device, key) IN
       /\ mem' = c.mem
       /\ history' = Append(history, Call("__getitem__", key, NoneVal, mem, c))
    /\ UNCHANGED <<eui, phase, eeprom_device, eui_device, mac, serial_number, tasks>>

\* eeprom[key] = data
SetItem(key, data, fail) ==
    /\ phase = "ready"
    /\ LET c == __setitem__(Ctx(mem, fail, "ValueError"), eeprom_device, key, data) IN
       /\ mem' = c.mem
       /\ history' = Append(history, Call("__setitem__", key, data, mem, c))
    /\ UNCHANGED <<eui, phase, eeprom_device, eui_device, mac, serial_number, tasks>>

\* len(eeprom)
LenCall ==
    /\ phase = "ready"
    /\ LET c == __len__(Ctx(mem, 0, "ValueError")) IN
       history' = Append(history, Call("__len__", OtherKey, NoneVal, mem, c))
    /\ UNCHANGED <<mem, eui, phase, eeprom_device, eui_device, mac, serial_number, tasks>>

\* eeprom.read_mac_address()
ReadMacAddress(fail) ==
    /\ phase = "ready"
    /\ LET c == read_mac_address(Ctx(mem, fail, "ValueError"), eui_device, eui) IN
       history' = Append(history, Call("read_mac_address", OtherKey, NoneVal, mem, c))
    /\ UNCHANGED <<mem, eui, phase, eeprom_device, eui_device, mac, serial_number, tasks>>

\* eeprom.read_serial_number()
ReadSerialNumber(fail) ==
    /\ phase = "ready"
    /\ LET c == read_serial_number(Ctx(mem, fail, "ValueError"), eui_device, eui) IN
       history' = Append(history, Call("read_serial_number", OtherKey, NoneVal, mem, c))
    /\ UNCHANGED <<mem, eui, phase, eeprom_device, eui_device, mac, serial_number, tasks>>

\* calls made after construction
Calls == IF Len(history) = 0 THEN 0 ELSE Len(history) - 1

(***************************************************************************)
(* Spec: any MaxCalls calls on a working bus                               *)
(***************************************************************************)
Next ==
    \/ \E f \in 0..MaxFail : Construct(DEFAULT_ADDRESS_PINS, f)
    \/ Calls < MaxCalls /\ \E k \in ReadKeys : \E e \in NegErrs(k) : GetItem(k, 0, e)
    \/ Calls < MaxCalls /\ \E k \in WriteKeys, d \in Datas : SetItem(k, d, 0)
    \/ Calls < MaxCalls /\ LenCall
    \/ Calls < MaxCalls /\ ReadMacAddress(0)
    \/ Calls < MaxCalls /\ ReadSerialNumber(0)

Spec == Init /\ [][Next]_vars

(***************************************************************************)
(* SpecFault: MaxCalls calls on a bus that may fail one transaction of     *)
(* each call                                                               *)
(***************************************************************************)
\* a call that issues one transaction runs with it succeeding or failing
OneTxnFails == 0..Min(1, MaxFail)

NextFault ==
    \/ \E p \in AddressPins, f \in 0..MaxFail : Construct(p, f)
    \/ Calls < MaxCalls /\ \E k \in FaultReadKeys, f \in OneTxnFails : GetItem(k, f, "ValueError")
    \/ Calls < MaxCalls /\ \E k \in FaultWriteKeys, d \in FaultDatas, f \in 0..MaxFail : SetItem(k, d, f)
    \/ Calls < MaxCalls /\ \E f \in OneTxnFails : ReadMacAddress(f)
    \/ Calls < MaxCalls /\ \E f \in OneTxnFails : ReadSerialNumber(f)

SpecFault == Init /\ [][NextFault]_vars

(***************************************************************************)
(* SpecRoundTrip: a write at any address of any length up to MaxWideLen,   *)
(* or reaching the end of the array, then the same range read back or      *)
(* written again                                                           *)
(***************************************************************************)
WideLens(a) == (1..MaxWideLen) \cup {EEPROM_LENGTH - a, EEPROM_LENGTH - a + 1}

WideDatas(L) ==
    IF L = 1
    THEN {IntVal(0), IntVal(76), IntVal(ByteMax), BytesVal(Payload(250, 1))}
    ELSE IF L = 5
    THEN {BytesVal(Payload(250, L)), ListVal(<<6, 7, 8, 9, 10>>)}
    ELSE {BytesVal(Payload(250, L))}

Last == history[Len(history)]

WriteAny ==
    /\ Calls = 0
    /\ \E a \in 0..(EEPROM_LENGTH - 1) : \E L \in WideLens(a) : \E d \in WideDatas(L) :
          SetItem(IntKey(a), d, 0)

ReadBack ==
    /\ Calls = 1
    /\ GetItem(IntKey(Last.key.addr), 0, "ValueError")

ReadBackRange ==
    /\ Calls = 1
    /\ Last.data.kind = "bytes"
    /\ GetItem(SliceKey(TRUE, Last.key.addr, TRUE, Last.key.addr + Len(Last.data.bytes)),
               0, "ValueError")

WriteAgain ==
    /\ Calls = 1
    /\ SetItem(Last.key, Last.data, 0)

NextRoundTrip ==
    \/ Construct(DEFAULT_ADDRESS_PINS, 0)
    \/ WriteAny
    \/ ReadBack
    \/ ReadBackRange
    \/ WriteAgain

SpecRoundTrip == Init /\ [][NextRoundTrip]_vars

(***************************************************************************)
(* SpecConc: two threads write the same range through one AT24MAC object.  *)
(* A thread is preempted only between its bus transactions: I2CDevice      *)
(* holds the bus lock for the whole of a with block, so the comparison     *)
(* read is one step and the write with its delay is one step, and the      *)
(* driver keeps nothing but locals between them.  A caller may take a      *)
(* mutex of its own around the call; the driver has none.                  *)
(***************************************************************************)
\* the ranges written: start address and length, each over several pages
ConcRanges == {<<10, 20>>, <<8, 40>>}

\* the payload of a thread: the two threads write different bytes
TaskData(t, L) == IF t = "a" THEN Payload(10, L) ELSE Payload(250, L)

Running(task) == task.pc \in {"compare", "write"}
Finished == {t \in Tasks : tasks[t].pc = "done"}

\* the page-writes of a thread's call
PlanOf(task) == WritePlan(task.data_address, task.data)

\* lines 166-176: on to the next page-write, or out of _write
NextPage(task, rank) ==
    IF task.page >= Len(PlanOf(task))
    THEN [task EXCEPT !.pc = "done", !.rank = rank]
    ELSE [task EXCEPT !.pc = "compare", !.page = @ + 1]

\* line 184 without the not: the write is issued when the data matches
Compared_inverted(task, match, rank) ==
    IF match THEN [task EXCEPT !.pc = "write"] ELSE NextPage(task, rank)

\* line 184: if not self._does_data_match(data_address, data)
Compared(task, match, rank) ==
    IF match THEN NextPage(task, rank) ELSE [task EXCEPT !.pc = "write"]

\* thread t enters _write(data_address, data), under the callers' mutex if
\* locked; lines 142-153 run on locals only
BeginWrite(t, data_address, data, locked) ==
    /\ phase = "ready"
    /\ tasks[t].pc = "idle"
    /\ locked => \A u \in Tasks : ~(tasks[u].locked /\ Running(tasks[u]))
    /\ \A u \in Tasks :
          tasks[u].pc # "idle"
            => (tasks[u].data_address = data_address /\ Len(tasks[u].data) = Len(data))
    /\ LET c == Ctx(mem, 0, "ValueError")
           co == Coerce(BytesVal(data))
           entered == [IdleTask EXCEPT !.locked = locked,
                                       !.overlaps = \E u \in Tasks : Running(tasks[u]),
                                       !.data_address = data_address,
                                       !.data = data]
           rank == Cardinality(Finished) + 1
       IN  tasks' = [tasks EXCEPT ![t] =
                        IF co.err # "" THEN [entered EXCEPT !.pc = "done", !.err = co.err, !.rank = rank]
                        ELSE IF (Len(co.bytes) + data_address) > EEPROM_LENGTH
                        THEN [entered EXCEPT !.pc = "done", !.err = "ValueError", !.rank = rank]
                        ELSE NextPage(entered, rank)]
    /\ UNCHANGED <<mem, eui, phase, eeprom_device, eui_device, mac, serial_number, history>>

\* thread t runs _does_data_match for its current page-write
CompareStep(t) ==
    /\ tasks[t].pc = "compare"
    /\ LET chunk == PlanOf(tasks[t])[tasks[t].page]
           d == _does_data_match(Ctx(mem, 0, "ValueError"), eeprom_device, chunk.addr, chunk.data)
       IN  tasks' = [tasks EXCEPT ![t] = Compared(@, d.match, Cardinality(Finished) + 1)]
    /\ UNCHANGED <<mem, eui, phase, eeprom_device, eui_device, mac, serial_number, history>>

\* thread t runs the with block of _write_page: device.write, time.sleep
WriteStep(t) ==
    /\ tasks[t].pc = "write"
    /\ LET chunk == PlanOf(tasks[t])[tasks[t].page]
           w == Sleep(ArrayWrite(Ctx(mem, 0, "ValueError"), eeprom_device, chunk.addr, chunk.data))
       IN  /\ mem' = w.mem
           /\ tasks' = [tasks EXCEPT ![t] = NextPage(@, Cardinality(Finished) + 1)]
    /\ UNCHANGED <<eui, phase, eeprom_device, eui_device, mac, serial_number, history>>

NextConc ==
    \/ Construct(DEFAULT_ADDRESS_PINS, 0)
    \/ \E t \in Tasks, r \in ConcRanges, locked \in BOOLEAN :
          BeginWrite(t, r[1], TaskData(t, r[2]), locked)
    \/ \E t \in Tasks : CompareStep(t)
    \/ \E t \in Tasks : WriteStep(t)

SpecConc == Init /\ [][NextConc]_vars

TypeOK == phase \in {"absent", "ready", "failed"}

(***************************************************************************)
(* Reading the record of calls                                             *)
(***************************************************************************)
\* device content after the i-th call
After(i) == IF i < Len(history) THEN history[i + 1].before ELSE mem

RECURSIVE CountOp(_, _)
CountOp(log, op) ==
    IF Len(log) = 0 THEN 0
    ELSE (IF log[Len(log)].op = op THEN 1 ELSE 0) + CountOp(SubSeq(log, 1, Len(log) - 1), op)

\* the bytes a write call was given, once coerced
PayloadOf(call) == Coerce(call.data).bytes

\* the start address a call works from
StartOf(call) == IF call.key.kind = "int" THEN call.key.addr ELSE SliceBounds(call.key).start

\* a write at an integer address of L >= 1 bytes that fit the array
IsFittingWrite(call) ==
    /\ call.op = "__setitem__"
    /\ call.key.kind = "int"
    /\ call.key.addr \in 0..(EEPROM_LENGTH - 1)
    /\ Coerce(call.data).err = ""
    /\ Len(PayloadOf(call)) >= 1
    /\ call.key.addr + Len(PayloadOf(call)) <= EEPROM_LENGTH

(***************************************************************************)
(* C1: a single-byte write eeprom[a] = v at a valid address a, followed by *)
(* the single-byte read eeprom[a], both succeed and the read returns v,    *)
(* whatever the device held before.                                        *)
(***************************************************************************)
C1_ByteRoundTrip ==
    \A i \in 1..(Len(history) - 1) :
        LET w == history[i]
            r == history[i + 1]
        IN  (/\ IsFittingWrite(w)
             /\ Len(PayloadOf(w)) = 1
             /\ r.op = "__getitem__"
             /\ r.key = w.key)
            => (/\ w.err = ""
                /\ r.err = ""
                /\ r.ret = IntVal(PayloadOf(w)[1]))

\* a byte that differed from v was physically written and then read back
C1_Witness ==
    /\ Len(history) = 3
    /\ IsFittingWrite(history[2])
    /\ history[2].data = IntVal(76)
    /\ history[2].before[history[2].key.addr] # 76
    /\ CountOp(history[2].log, "write") = 1
    /\ history[3].op = "__getitem__"
    /\ history[3].key = history[2].key
    /\ history[3].ret = IntVal(76)

(***************************************************************************)
(* C3: writing the same payload of L >= 1 bytes at the same address twice  *)
(* in succession leaves the content after the second write equal to the    *)
(* content after the first, and the second write issues no write           *)
(* transaction, only comparison reads.                                     *)
(***************************************************************************)
C3_Idempotent ==
    \A i \in 1..(Len(history) - 1) :
        LET w1 == history[i]
            w2 == history[i + 1]
        IN  (/\ IsFittingWrite(w1)
             /\ w2.op = "__setitem__"
             /\ w2.key = w1.key
             /\ w2.data = w1.data)
            => (/\ w1.err = ""
                /\ w2.err = ""
                /\ After(i + 1) = After(i)
                /\ CountOp(w2.log, "write") = 0
                /\ CountOp(w2.log, "sleep") = 0
                /\ CountOp(w2.log, "write_then_readinto") = Len(w2.log)
                /\ Len(w2.log) >= 1)

\* a write over several pages that physically wrote, repeated
C3_Witness ==
    /\ Len(history) = 3
    /\ IsFittingWrite(history[2])
    /\ CountOp(history[2].log, "write") >= 3
    /\ history[3].op = "__setitem__"
    /\ history[3].key = history[2].key
    /\ history[3].data = history[2].data
    /\ CountOp(history[3].log, "write_then_readinto") >= 3

(***************************************************************************)
(* C4: every write transaction issued to the EEPROM covers addresses       *)
(* [addr, addr + n) that lie inside the array and inside one page          *)
(* [k * 16, (k + 1) * 16), whatever the start address and length of the    *)
(* logical write.                                                          *)
(***************************************************************************)
InOnePage(e) ==
    /\ e.n >= 1
    /\ e.addr >= 0
    /\ e.addr + e.n <= EEPROM_LENGTH
    /\ e.addr \div PAGE_SIZE = (e.addr + e.n - 1) \div PAGE_SIZE

C4_NoPageCrossing ==
    \A i \in 1..Len(history) :
        \A j \in 1..Len(history[i].log) :
            history[i].log[j].op = "write" => InOnePage(history[i].log[j])

\* a logical write from an unaligned address that needed four write
\* transactions, the first ending at a page boundary
C4_Witness ==
    /\ Len(history) >= 2
    /\ IsFittingWrite(history[2])
    /\ history[2].key.addr % PAGE_SIZE # 0
    /\ CountOp(history[2].log, "write") = 4
    /\ \E j \in 1..Len(history[2].log) :
          /\ history[2].log[j].op = "write"
          /\ history[2].log[j].addr = history[2].key.addr
          /\ (history[2].log[j].addr + history[2].log[j].n) % PAGE_SIZE = 0

(***************************************************************************)
(* C5: a write of length >= 1 bytes at a valid start address with          *)
(* start + length = capacity succeeds and all its bytes land; with         *)
(* start + length = capacity + 1 it raises ValueError, issues no bus       *)
(* transaction and leaves the device content unchanged.                    *)
(***************************************************************************)
C5_CapacityBoundary ==
    \A i \in 1..Len(history) :
        LET w == history[i]
            a == w.key.addr
            L == Len(PayloadOf(w))
        IN  (/\ w.op = "__setitem__"
             /\ w.key.kind = "int"
             /\ a \in 0..(EEPROM_LENGTH - 1)
             /\ Coerce(w.data).err = ""
             /\ L >= 1)
            => (/\ (a + L = EEPROM_LENGTH)
                      => (w.err = "" /\ ArrayBytes(After(i), a, L) = PayloadOf(w))
                /\ (a + L = EEPROM_LENGTH + 1)
                      => (w.err = "ValueError" /\ w.log = <<>> /\ After(i) = w.before))

\* a write over several pages that ends exactly at the last byte of the array
C5_Witness ==
    /\ Len(history) >= 2
    /\ history[2].op = "__setitem__"
    /\ history[2].key.kind = "int"
    /\ Len(PayloadOf(history[2])) > PAGE_SIZE
    /\ history[2].key.addr + Len(PayloadOf(history[2])) = EEPROM_LENGTH
    /\ history[2].err = ""
    /\ CountOp(history[2].log, "write") >= 2
    /\ After(2)[EEPROM_LENGTH - 1] = PayloadOf(history[2])[Len(PayloadOf(history[2]))]

(***************************************************************************)
(* C2: for every range [s, e) with 0 <= s <= e <= capacity, a ranged write *)
(* of e - s bytes at [s, e) followed by the ranged read of [s, e) succeeds *)
(* and returns the same sequence, also when e = capacity is given as an    *)
(* explicit stop, when e = s and when e = s + 1.                           *)
(***************************************************************************)
C2_RangeRoundTrip ==
    \A i \in 1..(Len(history) - 1) :
        LET w == history[i]
            r == history[i + 1]
        IN  (/\ w.op = "__setitem__"
             /\ w.key.kind = "slice"
             /\ w.key.hasStart /\ w.key.hasStop
             /\ 0 <= w.key.start /\ w.key.start <= w.key.stop /\ w.key.stop <= EEPROM_LENGTH
             /\ w.data.kind = "bytes"
             /\ Len(w.data.bytes) = w.key.stop - w.key.start
             /\ r.op = "__getitem__"
             /\ r.key = w.key)
            => (/\ w.err = ""
                /\ r.err = ""
                /\ r.ret = BytesVal(w.data.bytes))

(***************************************************************************)
(* C6: a read or write call whose integer address, slice start or slice    *)
(* stop lies outside [0, capacity), or whose start + length exceeds the    *)
(* capacity, ends in an error without any bus transaction and leaves the   *)
(* device content unchanged.                                               *)
(***************************************************************************)
OutOfRange(call) ==
    /\ call.op \in {"__getitem__", "__setitem__"}
    /\ \/ call.key.kind = "int" /\ call.key.addr \notin 0..(EEPROM_LENGTH - 1)
       \/ call.key.kind = "slice" /\ call.key.hasStart
            /\ call.key.start \notin 0..(EEPROM_LENGTH - 1)
       \/ call.key.kind = "slice" /\ call.key.hasStop
            /\ call.key.stop \notin 0..(EEPROM_LENGTH - 1)
       \/ /\ call.op = "__setitem__"
          /\ call.key.kind \in {"int", "slice"}
          /\ Coerce(call.data).err = ""
          /\ StartOf(call) + Len(PayloadOf(call)) > EEPROM_LENGTH

C6_RejectedBeforeBus ==
    \A i \in 1..Len(history) :
        OutOfRange(history[i])
            => (/\ history[i].err # ""
                /\ history[i].log = <<>>
                /\ After(i) = history[i].before)

\* a write at a valid address whose payload runs past the end of the array,
\* refused after an earlier write had landed
C6_Witness ==
    /\ Len(history) = 3
    /\ CountOp(history[2].log, "write") >= 1
    /\ history[3].op = "__setitem__"
    /\ history[3].key = IntKey(250)
    /\ Len(PayloadOf(history[3])) = 20
    /\ OutOfRange(history[3])
    /\ history[3].err = "ValueError"
    /\ history[3].log = <<>>
    /\ mem = history[3].before

(***************************************************************************)
(* C7: a single-byte read or write at an integer address that does not     *)
(* satisfy 0 <= address < capacity, negative addresses included, raises    *)
(* ValueError.                                                             *)
(***************************************************************************)
C7_IntAddressValueError ==
    \A i \in 1..Len(history) :
        LET call == history[i] IN
        (/\ call.op \in {"__getitem__", "__setitem__"}
         /\ call.key.kind = "int"
         /\ call.key.addr \notin 0..(EEPROM_LENGTH - 1)
         /\ (call.op = "__setitem__" => Coerce(call.data).err = "" /\ Len(PayloadOf(call)) = 1))
        => call.err = "ValueError"

(***************************************************************************)
(* C8: a ranged write over [start, stop) with both bounds valid that the   *)
(* call accepts leaves every byte outside [start, stop) as it was.         *)
(***************************************************************************)
C8_RangeWriteFrame ==
    \A i \in 1..Len(history) :
        LET w == history[i]
            b == SliceBounds(w.key)
        IN  (/\ w.op = "__setitem__"
             /\ w.key.kind = "slice"
             /\ b.err = ""
             /\ w.err = "")
            => \A a \in 0..(EEPROM_LENGTH - 1) :
                  (a < b.start \/ a >= b.stop) => After(i)[a] = w.before[a]

(***************************************************************************)
(* C9: when a bus transaction fails during the k-th page-write of a        *)
(* multi-page write, the call raises the error and issues nothing after    *)
(* the failed transaction; the chunks of page-writes 1..k-1 are in the     *)
(* device, every write transaction that went through was followed by the   *)
(* settle delay and carried one of those chunks, and the addresses of the  *)
(* chunks k, k+1, ... hold what they held before the call.                 *)
(***************************************************************************)
HasFailure(log) == \E j \in 1..Len(log) : ~log[j].ok

C9_PartialWrite ==
    \A i \in 1..Len(history) :
        LET w == history[i]
            log == w.log
            n == Len(log)
            plan == WritePlan(StartOf(w), PayloadOf(w))
            k == CountOp(log, "write_then_readinto")
        IN  (/\ w.op = "__setitem__"
             /\ Len(plan) >= 2
             /\ HasFailure(log))
            => (/\ w.err = "OSError"
                /\ ~log[n].ok
                /\ \A j \in 1..(n - 1) : log[j].ok
                /\ k \in 1..Len(plan)
                /\ \A p \in 1..(k - 1) :
                      ArrayBytes(After(i), plan[p].addr, Len(plan[p].data)) = plan[p].data
                /\ \A p \in k..Len(plan) :
                      ArrayBytes(After(i), plan[p].addr, Len(plan[p].data))
                        = ArrayBytes(w.before, plan[p].addr, Len(plan[p].data))
                /\ \A j \in 1..n :
                      (log[j].op = "write" /\ log[j].ok)
                        => (/\ j < n
                            /\ log[j + 1].op = "sleep"
                            /\ \E p \in 1..(k - 1) :
                                  /\ log[j].addr = plan[p].addr
                                  /\ log[j].data = plan[p].data))

\* the write transaction of the second of four page-writes fails after the
\* first chunk was written
C9_Witness ==
    /\ Len(history) >= 2
    /\ history[2].op = "__setitem__"
    /\ Len(WritePlan(StartOf(history[2]), PayloadOf(history[2]))) = 4
    /\ Len(history[2].log) = 5
    /\ history[2].log[2].op = "write" /\ history[2].log[2].ok
    /\ history[2].log[3].op = "sleep"
    /\ history[2].log[5].op = "write" /\ ~history[2].log[5].ok
    /\ history[2].err = "OSError"
    /\ After(2) # history[2].before

(***************************************************************************)
(* C10 as stated: after construction mac and serial_number are the values  *)
(* fetched at construction and no call issues a transaction at the         *)
(* secondary (identity) bus address.                                       *)
(***************************************************************************)
FetchedMac == [i \in 1..MAC_ADDR_LENGTH |-> eui[EUI_LOCATION + i - 1]]
FetchedSerial == FromBytesBig([i \in 1..SERIAL_NUMBER_LENGTH |-> eui[SERIAL_NUMBER_LOCATION + i - 1]])

AtSecondary(call) == \E j \in 1..Len(call.log) : call.log[j].dev = eui_device

C10_NeverReread ==
    phase = "ready"
        => (/\ mac = FetchedMac
            /\ serial_number = FetchedSerial
            /\ \A i \in 2..Len(history) : ~AtSecondary(history[i]))

(***************************************************************************)
(* C10 amended: after construction mac and serial_number are the values    *)
(* fetched at construction; no __getitem__, __setitem__ or __len__ call    *)
(* issues a transaction at the secondary bus address; a call of the public *)
(* read_mac_address or read_serial_number issues exactly one read at the   *)
(* secondary address and leaves the stored values as they are.             *)
(***************************************************************************)
C10_IdentityCached ==
    phase = "ready"
        => (/\ mac = FetchedMac
            /\ serial_number = FetchedSerial
            /\ Len(mac) = MAC_ADDR_LENGTH
            /\ \A i \in 2..Len(history) :
                  IF history[i].op \in {"read_mac_address", "read_serial_number"}
                  THEN /\ Len(history[i].log) = 1
                       /\ history[i].log[1].op = "write_then_readinto"
                       /\ history[i].log[1].dev = eui_device
                  ELSE ~AtSecondary(history[i]))

\* after a write that changed the array and a call of read_serial_number,
\* the stored identity is still the one fetched at construction
C10_Witness ==
    /\ phase = "ready"
    /\ Len(history) = 3
    /\ history[2].op = "__setitem__"
    /\ CountOp(history[2].log, "write") >= 1
    /\ history[3].op = "read_serial_number"
    /\ history[3].ret = BytesVal(serial_number)
    /\ mac = FetchedMac
    /\ Len(serial_number) = SERIAL_NUMBER_LENGTH - 1


(***************************************************************************)
(* C11: the page-writes of one logical write of L >= 1 bytes at a valid    *)
(* address A, A + L <= capacity, partition the payload: their chunks are   *)
(* non-empty, start at A, follow one another in address, and concatenate   *)
(* to the payload, so payload byte i goes to address A + i exactly once.   *)
(* On a working bus the device then holds the payload at [A, A + L) and    *)
(* every other byte is unchanged.                                          *)
(***************************************************************************)
\* the comparison reads of a call, one per page-write, in order
ReadsOf(log) == SelectSeq(log, LAMBDA e : e.op = "write_then_readinto")

RECURSIVE ConcatChunks(_)
ConcatChunks(plan) ==
    IF Len(plan) = 0 THEN <<>> ELSE plan[1].data \o ConcatChunks(Tail(plan))

C11_ChunksPartitionPayload ==
    \A i \in 1..Len(history) :
        LET w == history[i]
            A == w.key.addr
            data == PayloadOf(w)
            L == Len(data)
            plan == WritePlan(A, data)
            reads == ReadsOf(w.log)
        IN  IsFittingWrite(w)
            => (/\ w.err = ""
                /\ Len(plan) >= 1
                /\ plan[1].addr = A
                /\ \A p \in 1..Len(plan) : Len(plan[p].data) >= 1
                /\ \A p \in 1..(Len(plan) - 1) :
                      plan[p + 1].addr = plan[p].addr + Len(plan[p].data)
                /\ ConcatChunks(plan) = data
                /\ Len(reads) = Len(plan)
                /\ \A p \in 1..Len(plan) :
                      reads[p].addr = plan[p].addr /\ reads[p].n = Len(plan[p].data)
                /\ \A j \in 1..Len(w.log) :
                      w.log[j].op = "write"
                        => (/\ w.log[j].addr >= A
                            /\ w.log[j].addr + w.log[j].n <= A + L
                            /\ w.log[j].data
                                 = SubSeq(data, w.log[j].addr - A + 1,
                                          w.log[j].addr - A + w.log[j].n))
                /\ ArrayBytes(After(i), A, L) = data
                /\ \A a \in 0..(EEPROM_LENGTH - 1) :
                      (a < A \/ a >= A + L) => After(i)[a] = w.before[a])

\* an unaligned write with leading chunk, two full pages and a tail, all
\* four physically written
C11_Witness ==
    /\ Len(history) >= 2
    /\ IsFittingWrite(history[2])
    /\ history[2].key.addr % PAGE_SIZE # 0
    /\ Offset(history[2].key.addr, Len(PayloadOf(history[2]))) > 0
    /\ TotalPages(Len(PayloadOf(history[2]))) = 2
    /\ RemainingBytes(history[2].key.addr, Len(PayloadOf(history[2]))) > 0
    /\ Len(ReadsOf(history[2].log)) = 4
    /\ CountOp(history[2].log, "write") = 4
    /\ ArrayBytes(After(2), history[2].key.addr, Len(PayloadOf(history[2])))
         = PayloadOf(history[2])


(***************************************************************************)
(* C12: each page-write of a logical write first issues one comparison     *)
(* read of the address and length of its chunk; when the bytes the device  *)
(* holds at that moment equal the chunk, nothing more is issued for it;    *)
(* otherwise one write transaction with the address and the chunk follows, *)
(* and then the settle delay.  So the chunks written are exactly those     *)
(* that differed from the device at their comparison read.                 *)
(***************************************************************************)
\* the device content m with chunk stored from addr on
WithChunk(m, addr, chunk) ==
    [a \in DOMAIN m |->
        IF a >= addr /\ a < addr + Len(chunk) THEN chunk[a - addr + 1] ELSE m[a]]

\* from event j on, the log is what the page-writes p, p+1, ... of the plan
\* issue on a device holding m, and they leave the device holding final
RECURSIVE CompareThenWrite(_, _, _, _, _, _, _)
CompareThenWrite(m, dev, log, j, plan, p, final) ==
    IF p > Len(plan) THEN j = Len(log) + 1 /\ m = final
    ELSE LET addr == plan[p].addr
             chunk == plan[p].data
         IN  /\ j <= Len(log)
             /\ log[j] = ReadEvent(dev, addr, Len(chunk), TRUE)
             /\ IF ArrayBytes(m, addr, Len(chunk)) = chunk
                THEN CompareThenWrite(m, dev, log, j + 1, plan, p + 1, final)
                ELSE /\ j + 2 <= Len(log)
                     /\ log[j + 1] = WriteEvent(dev, addr, chunk, TRUE)
                     /\ log[j + 2] = SleepEvent
                     /\ CompareThenWrite(WithChunk(m, addr, chunk), dev, log, j + 3,
                                         plan, p + 1, final)

\* stated of the call just made: every earlier call was the call just made
\* in an earlier state
C12_CompareThenWrite ==
    Len(history) >= 1
        => LET w == Last IN
           (w.op = "__setitem__" /\ w.err = "")
               => CompareThenWrite(w.before, eeprom_device, w.log, 1,
                                   WritePlan(StartOf(w), PayloadOf(w)), 1, mem)

\* a write of two chunks of which the first differed and was written and
\* the second matched and was skipped
C12_Witness ==
    /\ Len(history) = 3
    /\ history[3].op = "__setitem__"
    /\ history[3].err = ""
    /\ Len(WritePlan(StartOf(history[3]), PayloadOf(history[3]))) = 2
    /\ Len(history[3].log) = 4
    /\ history[3].log[1].op = "write_then_readinto"
    /\ history[3].log[2].op = "write"
    /\ history[3].log[3].op = "sleep"
    /\ history[3].log[4].op = "write_then_readinto"


(***************************************************************************)
(* C13: a logical write of L >= 1 bytes at a valid address A with          *)
(* A + L <= capacity issues as many page-writes, and so comparison reads,  *)
(* as the range [A, A + L) overlaps 16-byte pages; 5 bytes at address 100  *)
(* are one page-write.                                                     *)
(***************************************************************************)
PagesOverlapped(A, L) == ((A + L - 1) \div PAGE_SIZE) - (A \div PAGE_SIZE) + 1

C13_OnePageWritePerPage ==
    \A i \in 1..Len(history) :
        LET w == history[i]
            A == w.key.addr
            L == Len(PayloadOf(w))
        IN  IsFittingWrite(w)
            => (/\ Len(ReadsOf(w.log)) = PagesOverlapped(A, L)
                /\ CountOp(w.log, "write") <= PagesOverlapped(A, L)
                /\ (A = 100 /\ L = 5) => Len(ReadsOf(w.log)) = 1)

\* eeprom[100] = [6, 7, 8, 9, 10]: one comparison read, one write
C13_Witness ==
    /\ Len(history) >= 2
    /\ history[2].op = "__setitem__"
    /\ history[2].key = IntKey(100)
    /\ history[2].data = ListVal(<<6, 7, 8, 9, 10>>)
    /\ history[2].err = ""
    /\ Len(ReadsOf(history[2].log)) = 1
    /\ CountOp(history[2].log, "write") = 1
    /\ ArrayBytes(After(2), 100, 5) = <<6, 7, 8, 9, 10>>


(***************************************************************************)
(* C14 as stated: 20 bytes at address 10 are three page-writes, bytes      *)
(* 10-15, then the full page 16-31, then a tail; and every page-write of   *)
(* the full-page loop carries exactly PAGE_SIZE bytes.                     *)
(***************************************************************************)
\* page-writes issued before the full-page loop: the leading chunk, if any
LeadingWrites(A, L) == IF Offset(A, L) > 0 THEN 1 ELSE 0

C14_LoopWritesFullPages ==
    \A i \in 1..Len(history) :
        LET w == history[i]
            A == w.key.addr
            L == Len(PayloadOf(w))
            reads == ReadsOf(w.log)
            lead == LeadingWrites(A, L)
        IN  IsFittingWrite(w)
            => (/\ \A j \in (lead + 1)..(lead + TotalPages(L)) :
                      j <= Len(reads) /\ reads[j].n = PAGE_SIZE
                /\ (A = 10 /\ L = 20)
                      => (/\ Len(reads) = 3
                          /\ reads[1].addr = 10 /\ reads[1].n = 6
                          /\ reads[2].addr = 16 /\ reads[2].n = PAGE_SIZE))

(***************************************************************************)
(* C14, amended: 20 bytes at address 10 are two page-writes, bytes 10-15   *)
(* (6 bytes) and bytes 16-29 (14 bytes).  The first page-write carries     *)
(* min(L, bytes to the end of the page of A), every page-write between the *)
(* first and the last carries exactly PAGE_SIZE bytes from a page          *)
(* boundary, and the last one ends at A + L: it carries the remainder,     *)
(* whether the full-page loop or the tail issues it, and the loop's last   *)
(* page-write is shorter than PAGE_SIZE whenever L % PAGE_SIZE is less     *)
(* than the leading chunk's length.                                        *)
(***************************************************************************)
C14_OnlyEndsAreShort ==
    \A i \in 1..Len(history) :
        LET w == history[i]
            A == w.key.addr
            L == Len(PayloadOf(w))
            reads == ReadsOf(w.log)
            n == Len(reads)
            lead == LeadingWrites(A, L)
            tp == TotalPages(L)
        IN  IsFittingWrite(w)
            => (/\ n >= 1
                /\ reads[1].addr = A
                /\ reads[1].n = Min(L, PAGE_SIZE - (A % PAGE_SIZE))
                /\ \A j \in 2..(n - 1) :
                      reads[j].n = PAGE_SIZE /\ reads[j].addr % PAGE_SIZE = 0
                /\ reads[n].addr + reads[n].n = A + L
                /\ (L > 1 /\ tp > 0 /\ (L % PAGE_SIZE) < Offset(A, L))
                      => (/\ n = lead + tp
                          /\ reads[n].n = PAGE_SIZE - (Offset(A, L) - (L % PAGE_SIZE)))
                /\ (A = 10 /\ L = 20)
                      => (/\ n = 2
                          /\ reads[1].addr = 10 /\ reads[1].n = 6
                          /\ reads[2].addr = 16 /\ reads[2].n = 14))

\* 20 bytes written at address 10: two page-writes, 6 and 14 bytes, both
\* physically written
C14_Witness ==
    /\ Len(history) >= 2
    /\ history[2].op = "__setitem__"
    /\ history[2].key = IntKey(10)
    /\ Len(PayloadOf(history[2])) = 20
    /\ history[2].err = ""
    /\ Len(ReadsOf(history[2].log)) = 2
    /\ CountOp(history[2].log, "write") = 2
    /\ ArrayBytes(After(2), 10, 20) = PayloadOf(history[2])


(***************************************************************************)
(* C15: a read of length bytes at start, with start >= 0 and               *)
(* start + length <= capacity, is exactly one successful write-then-read   *)
(* at the primary address that sends start and receives length bytes; it   *)
(* writes nothing, leaves the content unchanged and returns the bytes      *)
(* [start, start + length), as a scalar when length is 1 and as a sequence *)
(* of length bytes otherwise.                                              *)
(***************************************************************************)
\* the range a key asks for: one byte, or [start, stop) with the defaults
ReadRange(key) ==
    IF key.kind = "int" THEN [start |-> key.addr, length |-> 1]
    ELSE LET s == IF key.hasStart THEN key.start ELSE 0
             e == IF key.hasStop THEN key.stop ELSE EEPROM_LENGTH
         IN  [start |-> s, length |-> e - s]

C15_ReadFrame ==
    \A i \in 1..Len(history) :
        LET r == history[i]
            rr == ReadRange(r.key)
        IN  (/\ r.op = "__getitem__"
             /\ r.key.kind \in {"int", "slice"}
             /\ rr.start >= 0
             /\ rr.length >= 0
             /\ rr.start + rr.length <= EEPROM_LENGTH)
            => (/\ r.err = ""
                /\ r.log = <<ReadEvent(eeprom_device, rr.start, rr.length, TRUE)>>
                /\ After(i) = r.before
                /\ r.ret = IF rr.length = 1
                           THEN IntVal(r.before[rr.start])
                           ELSE BytesVal(ArrayBytes(r.before, rr.start, rr.length)))


(***************************************************************************)
(* C16: whenever the driver has issued a write transaction to the EEPROM,  *)
(* the next thing it does is the write-cycle delay: no comparison read and *)
(* no write, of the same call or of a following one, comes between the     *)
(* write and the end of its delay.  A write transaction that failed on the *)
(* bus started no write cycle; it ends its call with no further            *)
(* transaction.                                                            *)
(***************************************************************************)
C16_SleepAfterWrite ==
    \A i \in 1..Len(history) :
        LET log == history[i].log IN
        \A j \in 1..Len(log) :
            /\ (log[j].op = "write" /\ log[j].ok)
                  => (j < Len(log) /\ log[j + 1] = SleepEvent)
            /\ (log[j].op = "write" /\ ~log[j].ok) => j = Len(log)
            /\ log[j].op = "sleep"
                  => (j > 1 /\ log[j - 1].op = "write" /\ log[j - 1].ok)

\* a write call whose first page-write is written and slept on before the
\* comparison read of the second one, followed by another call
C16_Witness ==
    /\ Len(history) >= 3
    /\ history[2].op = "__setitem__"
    /\ Len(history[2].log) >= 4
    /\ history[2].log[2].op = "write" /\ history[2].log[2].ok
    /\ history[2].log[3] = SleepEvent
    /\ history[2].log[4].op = "write_then_readinto"
    /\ history[2].log[Len(history[2].log)] = SleepEvent
    /\ Len(history[3].log) >= 1


(***************************************************************************)
(* C17 as stated: construction issues exactly two bus transactions, both   *)
(* reads at the secondary address, the hardware address (0x9A, 6 bytes)    *)
(* and then the serial number (0x80, 16 bytes); nothing is sent to the     *)
(* primary address and nothing is written; a transport failure in either   *)
(* read aborts construction, with no retry.                                *)
(***************************************************************************)
PrimaryOf(call) == BitOr(EEPROM_BASE, call.key.addr, PinBits)
SecondaryOf(call) == BitOr(EUI_BASE, call.key.addr, PinBits)

\* the two identity reads of a construction that meets no failure
IdentityReads(call) ==
    <<ReadEvent(SecondaryOf(call), EUI_LOCATION, MAC_ADDR_LENGTH, TRUE),
      ReadEvent(SecondaryOf(call), SERIAL_NUMBER_LOCATION, SERIAL_NUMBER_LENGTH, TRUE)>>

\* log is the first n events of expected, the last of them failed if the
\* call raised
RunsUpTo(log, expected, failed) ==
    /\ Len(log) <= Len(expected)
    /\ \A j \in 1..Len(log) :
          log[j] = [expected[j] EXCEPT !.ok = ~(failed /\ j = Len(log))]
    /\ failed => Len(log) >= 1
    /\ ~failed => Len(log) = Len(expected)

ConstructionLog(call) ==
    <<ProbeEvent(PrimaryOf(call), TRUE), ProbeEvent(SecondaryOf(call), TRUE)>>
        \o IdentityReads(call)

AllDone == Finished = Tasks
NoOverlap == \A t \in Tasks : ~tasks[t].overlaps

\* the bytes of the array that the page-write p of a thread's call covers
PageHolds(task, p) ==
    ArrayBytes(mem, PlanOf(task)[p].addr, Len(PlanOf(task)[p].data))

C18_SerializedLastWins ==
    /\ (\A t \in Tasks : tasks[t].locked) => NoOverlap
    /\ (AllDone /\ NoOverlap)
          => \A t \in Tasks :
                /\ tasks[t].err = ""
                /\ tasks[t].rank = Cardinality(Tasks)
                      => ArrayBytes(mem, tasks[t].data_address, Len(tasks[t].data))
                            = tasks[t].data

\* both writes are over, their page-writes interleaved, and the range holds
\* the chunk of one thread in one page and of the other in another
C18_Witness ==
    /\ AllDone
    /\ ~NoOverlap
    /\ \A t \in Tasks :
          /\ Len(PlanOf(tasks[t])) >= 2
          /\ ArrayBytes(mem, tasks[t].data_address, Len(tasks[t].data)) # tasks[t].data
          /\ \A p \in 1..Len(PlanOf(tasks[t])) :
                \E u \in Tasks : PageHolds(tasks[t], p) = PlanOf(tasks[u])[p].data
          /\ \E p \in 1..Len(PlanOf(tasks[t])) : PageHolds(tasks[t], p) = PlanOf(tasks[t])[p].data

====
